---- MODULE Spec2Model ----
(***************************************************************************)
(* A model of middlewared/schema.py: the attribute classes with their      *)
(* clean / validate / to_json_schema / resolve methods, the Ref and Patch  *)
(* placeholders, the resolver pass and the accepts() call-binding wrapper. *)
(*                                                                         *)
(* Python values are tagged records (PyNone, PyInt, PyStr, PyBool, PyList, *)
(* PyDict); a Python dict is the sequence of its (key, value) pairs in     *)
(* insertion order.  A call either returns (exc = "none") or raises        *)
(* (exc = "Error" | "ValidationErrors" | ...), and every caller passes an  *)
(* exception on unless the source catches it.                              *)
(***************************************************************************)
EXTENDS Naturals, Sequences, FiniteSets, TLC

VARIABLES
    last,       \* the latest call made on the library and how it ended
    nf,         \* the wrapper built by accepts for a handler f
    heap,       \* the schema objects, by address (1..Len(heap))
    schemas,    \* middleware.__schemas: the registry, name -> address
    methods,    \* per declared method f, the list f.accepts (addresses)
    pending,    \* the methods the resolution pass has not visited yet
    returned,   \* the addresses handed out by Ref.resolve
    failure     \* the exception that ended the resolution pass, or "none"

vars == <<last, nf, heap, schemas, methods, pending, returned, failure>>

-----------------------------------------------------------------------------
(* Python values *)

PyNone == [t |-> "NoneType"]
PyInt(n) == [t |-> "int", n |-> n]
PyStr(s) == [t |-> "str", s |-> s]
PyBool(b) == [t |-> "bool", b |-> b]
PyList(l) == [t |-> "list", l |-> l]
PyDict(d) == [t |-> "dict", d |-> d]

\* isinstance(value, int): bool is a subclass of int
IsInstanceInt(value) == value.t \in {"int", "bool"}

\* Python truth value of a value (used by "if value:")
Truthy(value) ==
    CASE value.t = "NoneType" -> FALSE
      [] value.t = "int" -> value.n # 0
      [] value.t = "str" -> value.s # ""
      [] value.t = "bool" -> value.b
      [] value.t = "list" -> Len(value.l) > 0
      [] value.t = "dict" -> Len(value.d) > 0

\* str.isdigit() and int(str) on the strings of the model
DigitStrings == {"0", "5", "7"}
IsDigit(s) == s \in DigitStrings
IntOfStr(s) == CASE s = "0" -> 0 [] s = "5" -> 5 [] s = "7" -> 7

\* str(index) for the indexes the model reaches
IdxStr(i) == CASE i = 0 -> "0" [] i = 1 -> "1" [] i = 2 -> "2" [] i = 3 -> "3"
               [] OTHER -> "n"

\* dict operations on a sequence of [k, v] pairs
DictHas(d, key) == \E i \in 1..Len(d) : d[i].k = key
DictGet(d, key) == d[CHOOSE i \in 1..Len(d) : d[i].k = key].v
DictSet(d, key, value) ==
    IF DictHas(d, key)
    THEN [i \in 1..Len(d) |-> IF d[i].k = key THEN [k |-> key, v |-> value] ELSE d[i]]
    ELSE Append(d, [k |-> key, v |-> value])
DictDel(d, key) == SelectSeq(d, LAMBDA p : p.k # key)
DictKeys(d) == [i \in 1..Len(d) |-> d[i].k]
DictKeySet(d) == {d[i].k : i \in 1..Len(d)}

\* "v in lst" for a Python list value
InList(v, lst) == \E i \in 1..Len(lst.l) : lst.l[i] = v

\* keyword arguments: a function from names to values
NoKw == <<>>
KwGet(kw, key, dflt) == IF key \in DOMAIN kw THEN kw[key] ELSE dflt

-----------------------------------------------------------------------------
(* Exceptions and results *)

EINVAL == "EINVAL"
ENOENT == "ENOENT"
ENOTDIR == "ENOTDIR"
EISDIR == "EISDIR"

\* class Error: one violation on one attribute.  The formatted operands of a
\* message ("Item#{0} ...: {1}") are kept apart in detail.
Error(attribute, errmsg, detail) ==
    [attribute |-> attribute, errmsg |-> errmsg, detail |-> detail, errno |-> EINVAL]

Return(value) == [exc |-> "none", value |-> value]
Raise(error) == [exc |-> "Error", error |-> error]
RaiseVErrors(errors) == [exc |-> "ValidationErrors", errors |-> errors]

\* ValidationErrors: the ordered list of (attribute path, message, errno);
\* a dotted path "a.b" is the sequence <<"a", "b">>
VErrAdd(verrors, attribute, errmsg, errno) ==
    Append(verrors, [attribute |-> attribute, errmsg |-> errmsg, errno |-> errno])
VErrAddChild(verrors, prefix, child) ==
    verrors \o [i \in 1..Len(child) |->
                   [child[i] EXCEPT !.attribute = prefix \o child[i].attribute]]
VErrExtend(verrors, other) == verrors \o other

-----------------------------------------------------------------------------
(* Construction of attributes *)

\* Attribute.__init__
Attribute(name, kw) ==
    [name |-> name,
     has_default |-> "default" \in DOMAIN kw,
     default |-> KwGet(kw, "default", PyNone),
     required |-> KwGet(kw, "required", FALSE),
     verbose |-> KwGet(kw, "verbose", name),
     validators |-> KwGet(kw, "validators", <<>>),
     register |-> KwGet(kw, "register", FALSE)]

\* EnumMixin.__init__
EnumMixin(kw) == [enum |-> KwGet(kw, "enum", PyNone)]

AnyAttr(name, kw) == [cls |-> "Any"] @@ Attribute(name, kw)
Str(name, kw) == [cls |-> "Str"] @@ EnumMixin(kw) @@ Attribute(name, kw)
Dir(name, kw) == [cls |-> "Dir"] @@ EnumMixin(kw) @@ Attribute(name, kw)
File(name, kw) == [cls |-> "File"] @@ EnumMixin(kw) @@ Attribute(name, kw)
IPAddr(name, kw) == [cls |-> "IPAddr"] @@ EnumMixin(kw) @@ Attribute(name, kw)
Bool(name, kw) == [cls |-> "Bool"] @@ Attribute(name, kw)
Int(name, kw) == [cls |-> "Int"] @@ Attribute(name, kw)

\* List.__init__: the default is [] unless one is given
List(name, kw) ==
    [cls |-> "List", items |-> KwGet(kw, "items", <<>>)]
      @@ EnumMixin(kw)
      @@ Attribute(name, IF "default" \in DOMAIN kw THEN kw
                         ELSE kw @@ [default |-> PyList(<<>>)])

\* the loop of Dict.__init__: self.attrs[i.name] = i
RECURSIVE DictInitAttrs(_, _)
DictInitAttrs(attrs, acc) ==
    IF attrs = <<>> THEN acc
    ELSE DictInitAttrs(Tail(attrs), DictSet(acc, Head(attrs).name, Head(attrs)))

\* Dict.__init__
Dict(name, attrs, kw) ==
    [cls |-> "Dict",
     additional_attrs |-> KwGet(kw, "additional_attrs", FALSE),
     update |-> KwGet(kw, "update", FALSE),
     attrs |-> DictInitAttrs(attrs, <<>>)]
      @@ Attribute(name, kw)

StrClasses == {"Str", "Dir", "File", "IPAddr"}

-----------------------------------------------------------------------------
(* clean *)

RECURSIVE clean(_, _)

\* EnumMixin.clean
EnumMixin_clean(self, value) ==
    IF self.enum = PyNone THEN Return(value)
    ELSE LET tmp == IF value.t = "list" THEN value.l ELSE <<value>>
         IN  IF \E i \in 1..Len(tmp) : ~InList(tmp[i], self.enum)
             THEN Raise(Error(self.name, "Invalid choice", <<>>))
             ELSE Return(value)

\* Attribute.clean
Attribute_clean(self, value) == Return(value)

\* Str.clean
Str_clean(self, value) ==
    LET e == EnumMixin_clean(self, value)
    IN  IF e.exc # "none" THEN e
        ELSE IF value = PyNone /\ ~self.required THEN Return(self.default)
        ELSE IF value.t # "str" THEN Raise(Error(self.name, "Not a string", <<>>))
        ELSE Return(value)

\* Bool.clean
Bool_clean(self, value) ==
    IF value = PyNone /\ ~self.required THEN Return(self.default)
    ELSE IF value.t # "bool" THEN Raise(Error(self.name, "Not a boolean", <<>>))
    ELSE Return(value)

\* Int.clean
Int_clean(self, value) ==
    IF value = PyNone /\ ~self.required THEN Return(self.default)
    ELSE IF ~IsInstanceInt(value)
         THEN IF value.t = "str" /\ IsDigit(value.s)
              THEN Return(PyInt(IntOfStr(value.s)))
              ELSE Raise(Error(self.name, "Not an integer", <<>>))
    ELSE Return(value)

\* i.clean(v) of a Dict or List works on v itself, so the next candidate of
\* List.clean sees what the previous one stored in it
SeenByNext(attr, v, result) ==
    IF (attr.cls = "Dict" /\ v.t = "dict") \/ (attr.cls = "List" /\ v.t = "list")
    THEN result ELSE v

\* List.clean, the loop over self.items for one element v: every candidate
\* that accepts stores its result in value[index] and the loop goes on; the
\* first candidate that raises sets found to the Error and breaks
RECURSIVE ListTryItems(_, _, _, _)
ListTryItems(items, j, v, elem) ==
    IF j > Len(items) THEN [found |-> TRUE, elem |-> elem]
    ELSE LET r == clean(items[j], v)
         IN  IF r.exc = "none"
             THEN ListTryItems(items, j + 1, SeenByNext(items[j], v, r.value), r.value)
             ELSE [found |-> FALSE, error |-> r.error, elem |-> elem]

\* List.clean, the loop over the elements
RECURSIVE ListCleanFrom(_, _, _)
ListCleanFrom(self, value, index) ==
    IF index > Len(value) THEN Return(PyList(value))
    ELSE LET t == ListTryItems(self.items, 1, value[index], value[index])
         IN  IF ~t.found
             THEN Raise(Error(self.name, "Item# is not valid per list types",
                              <<IdxStr(index - 1), t.error.attribute, t.error.errmsg>>))
             ELSE ListCleanFrom(self, [value EXCEPT ![index] = t.elem], index + 1)


\* A list value may carry the address of the list object it is (field id); a
\* list value without one is an object of its own.
PyListAt(a, l) == [t |-> "list", l |-> l, id |-> a]

\* copy.copy(value): for a list, a new list object with the same elements
copy_copy(value) ==
    IF value.t = "list" /\ "id" \in DOMAIN value THEN PyList(value.l) ELSE value

\* List.clean
List_clean(self, value) ==
    LET e == EnumMixin_clean(self, value)
    IN  IF e.exc # "none" THEN e
        ELSE IF value = PyNone /\ ~self.required THEN Return(copy_copy(self.default))
        ELSE IF value.t # "list" THEN Raise(Error(self.name, "Not a list", <<>>))
        ELSE IF Len(self.items) > 0 THEN ListCleanFrom(self, value.l, 1)
        ELSE Return(value)

\* Dict.clean, the loop over list(data.items())
RECURSIVE DictCleanItems(_, _, _, _)
DictCleanItems(self, items, j, data) ==
    IF j > Len(items) THEN Return(data)
    ELSE LET key == items[j].k
             value == items[j].v
         IN  IF ~self.additional_attrs /\ ~DictHas(self.attrs, key)
             THEN Raise(Error(key, "Field was not expected", <<>>))
             ELSE IF ~DictHas(self.attrs, key)
             THEN DictCleanItems(self, items, j + 1, data)
             ELSE LET r == clean(DictGet(self.attrs, key), value)
                  IN  IF r.exc # "none" THEN r
                      ELSE DictCleanItems(self, items, j + 1, DictSet(data, key, r.value))

\* Variants of DictEnforces that ignore self.update
DictEnforces_Never(self) == FALSE
DictEnforces_Always(self) == TRUE

\* Dict.clean: "if not self.update"
DictEnforces(self) == ~self.update

\* Dict.clean, the loop over self.attrs.values(): required fields and defaults
RECURSIVE DictRequiredAndDefaults(_, _, _)
DictRequiredAndDefaults(attrs, j, data) ==
    IF j > Len(attrs) THEN Return(data)
    ELSE LET attr == attrs[j].v
         IN  IF attr.required /\ ~DictHas(data, attr.name)
             THEN Raise(Error(attr.name, "This field is required", <<>>))
             ELSE IF ~DictHas(data, attr.name) /\ attr.has_default
             THEN DictRequiredAndDefaults(attrs, j + 1, DictSet(data, attr.name, attr.default))
             ELSE DictRequiredAndDefaults(attrs, j + 1, data)

\* Dict.clean
Dict_clean(self, data0) ==
    LET data == IF data0 = PyNone /\ ~self.required THEN PyDict(<<>>) ELSE data0
    IN  IF data.t # "dict" THEN Raise(Error(self.name, "A dict was expected", <<>>))
        ELSE LET r == DictCleanItems(self, data.d, 1, data.d)
             IN  IF r.exc # "none" THEN r
                 ELSE LET q == IF DictEnforces(self)
                               THEN DictRequiredAndDefaults(self.attrs, 1, r.value)
                               ELSE r
                      IN  IF q.exc # "none" THEN q ELSE Return(PyDict(q.value))

\* attr.clean(value), by the class of attr
clean(self, value) ==
    CASE self.cls = "Any" -> Attribute_clean(self, value)
      [] self.cls \in StrClasses -> Str_clean(self, value)
      [] self.cls = "Bool" -> Bool_clean(self, value)
      [] self.cls = "Int" -> Int_clean(self, value)
      [] self.cls = "List" -> List_clean(self, value)
      [] self.cls = "Dict" -> Dict_clean(self, value)

-----------------------------------------------------------------------------
(* validate *)

\* The world validate looks at: the paths that exist (os.path.exists, isdir,
\* isfile) and the strings ipaddress.ip_address parses
ExistingDirs == {"/mnt"}
ExistingFiles == {"/etc/hosts"}
PathExists(s) == s \in ExistingDirs \cup ExistingFiles
PathIsDir(s) == s \in ExistingDirs
PathIsFile(s) == s \in ExistingFiles
ValidIPs == {"10.0.0.1"}
IsIPAddress(s) == s \in ValidIPs

\* A validator is a callable that raises ShouldBe(what) on the values it
\* rejects: [what, rejects]
ValidatorRaises(validator, value) == value \in validator.rejects
ShouldBeMsg(validator) == validator.msg

RECURSIVE validate(_, _)

\* Attribute.validate, the loop over self.validators
RECURSIVE RunValidators(_, _, _, _)
RunValidators(self, value, j, verrors) ==
    IF j > Len(self.validators) THEN verrors
    ELSE RunValidators(self, value, j + 1,
            IF ValidatorRaises(self.validators[j], value)
            THEN VErrAdd(verrors, <<self.name>>, ShouldBeMsg(self.validators[j]), EINVAL)
            ELSE verrors)

\* "if verrors: raise verrors"
RaiseIfAny(verrors) ==
    IF Len(verrors) > 0 THEN RaiseVErrors(verrors) ELSE Return(PyNone)

\* Attribute.validate
Attribute_validate(self, value) ==
    RaiseIfAny(RunValidators(self, value, 1, <<>>))

\* Dir.validate
Dir_validate(self, value) ==
    LET verrors ==
            IF Truthy(value)
            THEN IF ~PathExists(value.s)
                 THEN VErrAdd(<<>>, <<self.name>>, "This path does not exist.", ENOENT)
                 ELSE IF ~PathIsDir(value.s)
                 THEN VErrAdd(<<>>, <<self.name>>, "This path is not a directory.", ENOTDIR)
                 ELSE <<>>
            ELSE <<>>
    IN  IF Len(verrors) > 0 THEN RaiseVErrors(verrors)
        ELSE Attribute_validate(self, value)

\* File.validate
File_validate(self, value) ==
    LET verrors ==
            IF Truthy(value)
            THEN IF ~PathExists(value.s)
                 THEN VErrAdd(<<>>, <<self.name>>, "This path does not exist.", ENOENT)
                 ELSE IF ~PathIsFile(value.s)
                 THEN VErrAdd(<<>>, <<self.name>>, "This path is not a file.", EISDIR)
                 ELSE <<>>
            ELSE <<>>
    IN  IF Len(verrors) > 0 THEN RaiseVErrors(verrors)
        ELSE Attribute_validate(self, value)

\* IPAddr.validate: an unparsable address raises Error, not ValidationErrors
IPAddr_validate(self, value) ==
    IF Truthy(value) /\ ~IsIPAddress(value.s)
    THEN Raise(Error(self.name, "Not a valid IP Address", <<>>))
    ELSE Attribute_validate(self, value)

\* List.validate, the loop over self.items for element i (0-based) of the list;
\* only ValidationErrors is caught
RECURSIVE ListValidateItems(_, _, _, _, _)
ListValidateItems(self, i, v, j, verrors) ==
    IF j > Len(self.items) THEN RaiseVErrors(verrors)
    ELSE LET r == validate(self.items[j], v)
         IN  IF r.exc = "Error" THEN r
             ELSE ListValidateItems(self, i, v, j + 1,
                     IF r.exc = "ValidationErrors"
                     THEN VErrAddChild(verrors, <<self.name, IdxStr(i)>>, r.errors)
                     ELSE verrors)

\* List.validate, the loop over the elements
RECURSIVE ListValidateFrom(_, _, _, _)
ListValidateFrom(self, value, index, verrors) ==
    IF index > Len(value) THEN RaiseIfAny(verrors)
    ELSE LET r == ListValidateItems(self, index - 1, value[index], 1, verrors)
         IN  IF r.exc = "Error" THEN r
             ELSE ListValidateFrom(self, value, index + 1, r.errors)

\* List.validate
List_validate(self, value) == ListValidateFrom(self, value.l, 1, <<>>)

\* Dict.validate, the loop over self.attrs.values()
RECURSIVE DictValidateFrom(_, _, _, _)
DictValidateFrom(self, value, j, verrors) ==
    IF j > Len(self.attrs) THEN RaiseIfAny(verrors)
    ELSE LET attr == self.attrs[j].v
         IN  IF ~DictHas(value, attr.name)
             THEN DictValidateFrom(self, value, j + 1, verrors)
             ELSE LET r == validate(attr, DictGet(value, attr.name))
                  IN  IF r.exc = "Error" THEN r
                      ELSE DictValidateFrom(self, value, j + 1,
                              IF r.exc = "ValidationErrors"
                              THEN VErrAddChild(verrors, <<self.name>>, r.errors)
                              ELSE verrors)

\* Dict.validate
Dict_validate(self, value) == DictValidateFrom(self, value.d, 1, <<>>)

\* attr.validate(value), by the class of attr
validate(self, value) ==
    CASE self.cls = "Dir" -> Dir_validate(self, value)
      [] self.cls = "File" -> File_validate(self, value)
      [] self.cls = "IPAddr" -> IPAddr_validate(self, value)
      [] self.cls = "List" -> List_validate(self, value)
      [] self.cls = "Dict" -> Dict_validate(self, value)
      [] OTHER -> Attribute_validate(self, value)

-----------------------------------------------------------------------------
(* to_json_schema: the exported mapping is a Python dict *)

KV(key, value) == [k |-> key, v |-> value]

\* the "if not parent:" block shared by the variants
TitleAndRequired(self) ==
    <<KV("title", PyStr(self.verbose)), KV("_required_", PyBool(self.required))>>

NullableType(name) == PyList(<<PyStr(name), PyStr("null")>>)

\* Any.to_json_schema
Any_to_json_schema(self, parent) ==
    PyDict(<<KV("anyOf", PyList(<<PyDict(<<KV("type", PyStr("string"))>>),
                                  PyDict(<<KV("type", PyStr("integer"))>>),
                                  PyDict(<<KV("type", PyStr("boolean"))>>),
                                  PyDict(<<KV("type", PyStr("object"))>>),
                                  PyDict(<<KV("type", PyStr("array"))>>)>>)),
             KV("title", PyStr(self.verbose))>>
           \o (IF ~parent THEN <<KV("_required_", PyBool(self.required))>> ELSE <<>>))

\* Str.to_json_schema
Str_to_json_schema(self, parent) ==
    PyDict((IF ~parent THEN TitleAndRequired(self) ELSE <<>>)
           \o <<KV("type", IF ~self.required THEN NullableType("string")
                           ELSE PyStr("string"))>>
           \o (IF self.enum # PyNone THEN <<KV("enum", self.enum)>> ELSE <<>>))

\* Bool.to_json_schema
Bool_to_json_schema(self, parent) ==
    PyDict(<<KV("type", IF ~self.required THEN NullableType("boolean")
                        ELSE PyStr("boolean"))>>
           \o (IF ~parent THEN TitleAndRequired(self) ELSE <<>>))

\* Int.to_json_schema
Int_to_json_schema(self, parent) ==
    PyDict(<<KV("type", IF ~self.required THEN NullableType("integer")
                        ELSE PyStr("integer"))>>
           \o (IF ~parent THEN TitleAndRequired(self) ELSE <<>>))

\* List.to_json_schema: schema['type'] is set to 'array', then set again by
\* "if self.required: ['array', 'null'] else: 'array'"
List_to_json_schema(self, parent) ==
    LET s0 == <<KV("type", PyStr("array"))>>
                 \o (IF ~parent THEN TitleAndRequired(self) ELSE <<>>)
        s1 == DictSet(s0, "type", IF self.required THEN NullableType("array")
                                  ELSE PyStr("array"))
    IN  PyDict(IF self.enum # PyNone THEN DictSet(s1, "enum", self.enum) ELSE s1)

RECURSIVE to_json_schema(_, _)

\* Dict.to_json_schema, the loop over self.attrs.items()
RECURSIVE DictProperties(_, _, _)
DictProperties(attrs, j, props) ==
    IF j > Len(attrs) THEN props
    ELSE DictProperties(attrs, j + 1,
            DictSet(props, attrs[j].k, to_json_schema(attrs[j].v, TRUE)))

\* Dict.to_json_schema
Dict_to_json_schema(self, parent) ==
    PyDict(<<KV("type", PyStr("object")),
             KV("properties", PyDict(DictProperties(self.attrs, 1, <<>>))),
             KV("additionalProperties", PyBool(self.additional_attrs))>>
           \o (IF ~parent THEN TitleAndRequired(self) ELSE <<>>))

\* attr.to_json_schema(parent=...), by the class of attr; parent is whether
\* one was given
to_json_schema(self, parent) ==
    CASE self.cls = "Any" -> Any_to_json_schema(self, parent)
      [] self.cls \in StrClasses -> Str_to_json_schema(self, parent)
      [] self.cls = "Bool" -> Bool_to_json_schema(self, parent)
      [] self.cls = "Int" -> Int_to_json_schema(self, parent)
      [] self.cls = "List" -> List_to_json_schema(self, parent)
      [] self.cls = "Dict" -> Dict_to_json_schema(self, parent)

-----------------------------------------------------------------------------
(* The attribute operations called on declared attributes: Spec *)

MaxFields == 2      \* fields declared in one Dict
MaxKeys == 2        \* keys of a mapping handed to Dict.clean
MaxItems == 2       \* candidates in List.items
MaxLen == 2         \* elements of a list handed to List.clean

\* all sequences over S of length at most n
SeqsUpTo(S, n) == UNION {[1..m -> S] : m \in 0..n}
Distinct(seq, key(_)) ==
    \A i, j \in 1..Len(seq) : i # j => key(seq[i]) # key(seq[j])

NameOf(a) == a.name
KeyOf(p) == p.k

\* the fields Dicts are declared from
DictFields ==
    {Int("id", [required |-> TRUE]),
     Str("name", [required |-> TRUE]),
     Str("mode", [default |-> PyStr("z")]),
     Int("size", NoKw),
     Dict("opts", <<Int("level", [required |-> TRUE])>>, NoKw)}

DeclaredDicts ==
    {Dict("S", fields, [update |-> u, additional_attrs |-> a]) :
        fields \in {f \in SeqsUpTo(DictFields, MaxFields) : Distinct(f, NameOf)},
        u \in BOOLEAN, a \in BOOLEAN}

\* the candidates Lists are declared from
ListCandidates ==
    {Int("n", [required |-> TRUE]), Str("s", [required |-> TRUE]), Int("o", NoKw)}

DeclaredLists ==
    {List("l", [items |-> items]) : items \in SeqsUpTo(ListCandidates, MaxItems)}

DeclaredScalars ==
    UNION {{AnyAttr("v", [required |-> r]),
            Str("v", [required |-> r]),
            Str("v", [required |-> r, enum |-> PyList(<<PyStr("a"), PyStr("b")>>)]),
            Dir("v", [required |-> r]),
            File("v", [required |-> r]),
            IPAddr("v", [required |-> r]),
            Bool("v", [required |-> r]),
            Int("v", [required |-> r]),
            List("v", [required |-> r]),
            List("v", [required |-> r, enum |-> PyList(<<PyStr("a")>>)])} :
           r \in BOOLEAN}

DeclaredAttrs == DeclaredDicts \cup DeclaredLists \cup DeclaredScalars

\* the values a caller hands in under each key of a mapping
ValuesOfKey(key) ==
    CASE key = "opts" -> {PyDict(<<>>)}
      [] key = "extra" -> {PyInt(5)}
      [] OTHER -> {PyInt(5), PyStr("z")}

MappingInputs ==
    {PyDict(d) : d \in {m \in SeqsUpTo([k : {"id", "name", "mode", "opts", "extra"},
                                        v : {PyInt(5), PyStr("z"), PyDict(<<>>)}], MaxKeys) :
                          /\ Distinct(m, KeyOf)
                          /\ \A i \in 1..Len(m) : m[i].v \in ValuesOfKey(m[i].k)}}

ListInputs ==
    {PyList(l) : l \in SeqsUpTo({PyInt(5), PyStr("z"), PyStr("5"), PyNone}, MaxLen)}

ScalarInputs == {PyNone, PyInt(5), PyStr("5"), PyStr("a"), PyBool(TRUE), PyList(<<PyStr("a")>>)}

NoCall == [op |-> "none"]
NoWrapper == [args_index |-> 0]
Pending == [exc |-> "pending"]

NoResolution == /\ heap = <<>> /\ schemas = <<>> /\ methods = <<>>
                /\ pending = {} /\ returned = <<>> /\ failure = "none"
Idle == nf = NoWrapper /\ NoResolution

\* the calls a client of the library makes, each on a declared attribute
CleanCalls ==
    {[op |-> "clean", self |-> attr, value |-> value, result |-> Pending] :
        attr \in DeclaredDicts, value \in MappingInputs \cup {PyNone, PyInt(5)}}
    \cup
    {[op |-> "clean", self |-> attr, value |-> value, result |-> Pending] :
        attr \in DeclaredLists, value \in ListInputs \cup {PyNone, PyInt(5)}}
    \cup
    {[op |-> "clean", self |-> attr, value |-> value, result |-> Pending] :
        attr \in DeclaredScalars, value \in ScalarInputs}

JsonCalls ==
    {[op |-> "to_json_schema", self |-> attr, parent |-> parent, result |-> Pending] :
        attr \in DeclaredAttrs, parent \in BOOLEAN}

Init == last \in CleanCalls \cup JsonCalls /\ Idle

\* attr.clean(value)
Clean ==
    /\ last.op = "clean" /\ last.result = Pending
    /\ last' = [last EXCEPT !.result = clean(last.self, last.value)]
    /\ UNCHANGED <<nf, heap, schemas, methods, pending, returned, failure>>

\* attr.to_json_schema(parent=...)
ToJsonSchema ==
    /\ last.op = "to_json_schema" /\ last.result = Pending
    /\ last' = [last EXCEPT !.result = to_json_schema(last.self, last.parent)]
    /\ UNCHANGED <<nf, heap, schemas, methods, pending, returned, failure>>

Next == Clean \/ ToJsonSchema

Spec == Init /\ [][Next]_vars

-----------------------------------------------------------------------------
(* Properties of the attribute operations *)

Min(S) == CHOOSE x \in S : \A y \in S : x <= y

DictCleaned ==
    /\ last.op = "clean" /\ last.result # Pending
    /\ last.self.cls = "Dict" /\ last.value.t = "dict"

\* positions in self.attrs of the required attributes the input has no key for
MissingRequired(self, data) ==
    {i \in 1..Len(self.attrs) :
        self.attrs[i].v.required /\ ~DictHas(data, self.attrs[i].v.name)}

MissingDefaulted(self, data) ==
    {i \in 1..Len(self.attrs) :
        self.attrs[i].v.has_default /\ ~DictHas(data, self.attrs[i].v.name)}

\* every key of the input is one the Dict takes, with a value its attribute cleans
SuppliedKeysClean(self, data) ==
    \A i \in 1..Len(data) :
        IF DictHas(self.attrs, data[i].k)
        THEN clean(DictGet(self.attrs, data[i].k), data[i].v).exc = "none"
        ELSE self.additional_attrs

RequiredError(result, name) ==
    /\ result.exc = "Error"
    /\ result.error.errmsg = "This field is required"
    /\ result.error.attribute = name

\* C3 as claimed: with update=false, an input with no key for a required
\* attribute f makes Dict.clean fail with 'This field is required' naming
\* exactly f, whatever else the input contains.
C3_RequiredWhateverElse ==
    (DictCleaned /\ ~last.self.update) =>
        \A i \in MissingRequired(last.self, last.value.d) :
            RequiredError(last.result, last.self.attrs[i].v.name)

\* C3 amended: with update=false, an input with no key for a required attribute
\* makes Dict.clean fail with an Error; when every key of the input is taken by
\* the Dict and cleans without error, that Error is 'This field is required'
\* naming the first missing required attribute in declaration order.
C3_RequiredAfterSuppliedKeys ==
    (DictCleaned /\ ~last.self.update
        /\ MissingRequired(last.self, last.value.d) # {}) =>
        /\ last.result.exc = "Error"
        /\ SuppliedKeysClean(last.self, last.value.d) =>
              RequiredError(last.result,
                  last.self.attrs[Min(MissingRequired(last.self, last.value.d))].v.name)

C3_Witness ==
    /\ DictCleaned /\ ~last.self.update
    /\ Cardinality(MissingRequired(last.self, last.value.d)) = 1
    /\ Len(last.value.d) > 0
    /\ SuppliedKeysClean(last.self, last.value.d)
    /\ \E i \in MissingRequired(last.self, last.value.d) :
          RequiredError(last.result, last.self.attrs[i].v.name)

\* C4: with update=true, Dict.clean of a mapping never fails for an absent
\* required attribute of the Dict (it succeeds whenever the supplied keys are
\* taken and clean), and the mapping it returns has exactly the keys of the
\* input: an absent attribute with a default is not populated.
C4_UpdateLeavesAbsent ==
    (DictCleaned /\ last.self.update) =>
        /\ \A i \in MissingRequired(last.self, last.value.d) :
              ~RequiredError(last.result, last.self.attrs[i].v.name)
        /\ SuppliedKeysClean(last.self, last.value.d) => last.result.exc = "none"
        /\ last.result.exc = "none" =>
              DictKeys(last.result.value.d) = DictKeys(last.value.d)

C4_Witness ==
    /\ DictCleaned /\ last.self.update
    /\ MissingRequired(last.self, last.value.d) # {}
    /\ MissingDefaulted(last.self, last.value.d) # {}
    /\ Len(last.value.d) > 0
    /\ last.result.exc = "none"
    /\ DictKeys(last.result.value.d) = DictKeys(last.value.d)

JsonTypeName(cls) ==
    CASE cls \in StrClasses -> "string"
      [] cls = "Bool" -> "boolean"
      [] cls = "Int" -> "integer"
      [] cls = "List" -> "array"

\* C8 as claimed: for Str and its subtypes, Bool, Int and List, to_json_schema
\* gives type as the bare type name when required and as [type name, "null"]
\* when not required; a required top-level Int has _required_ = true.
C8_NullableWhenNotRequired ==
    (last.op = "to_json_schema" /\ last.result # Pending
        /\ last.self.cls \in StrClasses \cup {"Bool", "Int", "List"}) =>
        /\ DictGet(last.result.d, "type") =
              IF last.self.required THEN PyStr(JsonTypeName(last.self.cls))
              ELSE NullableType(JsonTypeName(last.self.cls))
        /\ (last.self.cls = "Int" /\ ~last.parent) =>
              DictGet(last.result.d, "_required_") = PyBool(last.self.required)

\* candidates of self.items that clean v without raising
Accepting(self, v) ==
    {j \in 1..Len(self.items) : clean(self.items[j], v).exc = "none"}

\* C9 as claimed: List.clean with candidates replaces each element by the
\* result of the first candidate, in declared order, whose clean does not
\* raise, and fails, naming the element's index, only when every candidate
\* rejects that element.
C9_FirstAcceptingCandidate ==
    (last.op = "clean" /\ last.result # Pending /\ last.self.cls = "List"
        /\ Len(last.self.items) > 0 /\ last.value.t = "list") =>
        LET self == last.self
            l == last.value.l
            Rejected == {i \in 1..Len(l) : Accepting(self, l[i]) = {}}
        IN  /\ Rejected = {} =>
                  /\ last.result.exc = "none"
                  /\ \A i \in 1..Len(l) :
                        last.result.value.l[i] =
                            clean(self.items[Min(Accepting(self, l[i]))], l[i]).value
            /\ Rejected # {} =>
                  /\ last.result.exc = "Error"
                  /\ \E i \in Rejected : last.result.error.detail[1] = IdxStr(i - 1)

-----------------------------------------------------------------------------
(* The call-binding wrapper built by accepts *)

\* a handler f as accepts() sees it: its parameter names (f.__code__), whether
\* it carries _pass_app and _job, and whether it is a coroutine function
Handler(pass_app, job, params, is_async) ==
    [co_varnames |-> <<"self">> \o (IF pass_app THEN <<"app">> ELSE <<>>)
                        \o (IF job THEN <<"job">> ELSE <<>>) \o params,
     pass_app |-> pass_app, job |-> job, is_async |-> is_async]

\* accepts.wrap: args_index
ArgsIndex(f) == 1 + (IF f.pass_app THEN 1 ELSE 0) + (IF f.job THEN 1 ELSE 0)

\* accepts.wrap: "assert len(schema) == f.__code__.co_argcount - args_index"
WrapAssert(schema, f) == Len(schema) = Len(f.co_varnames) - ArgsIndex(f)

\* accepts.wrap: the wrapper nf, with nf.accepts = list(schema)
wrap(schema, f) ==
    [args_index |-> ArgsIndex(f), accepts |-> schema,
     co_varnames |-> f.co_varnames, co_argcount |-> Len(f.co_varnames),
     is_async |-> f.is_async]

NoError == [attribute |-> "", errmsg |-> "", detail |-> <<>>, errno |-> ""]

\* the end of one "value = attr.clean(value); try: attr.validate(value) ...":
\* c and v are what clean and validate did; an Error leaves the pass, the
\* entries of a ValidationErrors are added to verrors
Collect(c, v, verrors) ==
    IF v.exc = "Error" THEN v
    ELSE [exc |-> "none", value |-> c.value,
          verrors |-> IF v.exc = "ValidationErrors"
                      THEN VErrExtend(verrors, v.errors) ELSE verrors]

ValidateCleaned(attr, c, verrors) ==
    IF c.exc # "none" THEN c ELSE Collect(c, validate(attr, c.value), verrors)

\* attr.clean(value) followed by attr.validate(value), as both loops of
\* clean_and_validate_args do it
CleanThenValidate(attr, value, verrors) ==
    ValidateCleaned(attr, clean(attr, value), verrors)

\* one clean of the pass: attribute nf.accepts[i] applied to the parameter
\* co_varnames[x] (both counted from 0, as the source does)
Binding(x, i, value) == [x |-> x, i |-> i, value |-> value]

\* the state of the pass after one parameter: r is what clean and validate
\* did, b the cleans so far
AfterPositional(st, pos, r, b) ==
    IF r.exc # "none"
    THEN [st EXCEPT !.exc = "Error", !.error = r.error, !.binds = b]
    ELSE [st EXCEPT !.args[pos] = r.value, !.verrors = r.verrors, !.binds = b,
                    !.i = st.i + 1]

AfterKeyword(st, kwarg, r, b) ==
    IF r.exc # "none"
    THEN [st EXCEPT !.exc = "Error", !.error = r.error, !.binds = b]
    ELSE [st EXCEPT !.kwargs = DictSet(@, kwarg, r.value), !.verrors = r.verrors,
                    !.binds = b, !.i = st.i + 1]

\* clean_and_validate_args, the body of the loop over args[args_index:]
PositionalStep(w, st) ==
    IF st.i >= Len(w.accepts) THEN [st EXCEPT !.exc = "IndexError"]
    ELSE AfterPositional(st, w.args_index + st.i + 1,
            CleanThenValidate(w.accepts[st.i + 1], st.args[w.args_index + st.i + 1],
                              st.verrors),
            Append(st.binds, Binding(w.args_index + st.i, st.i,
                                     st.args[w.args_index + st.i + 1])))

\* clean_and_validate_args, the loop over args[args_index:]
RECURSIVE BindPositional(_, _, _)
BindPositional(w, st, todo) ==
    IF todo = 0 \/ st.exc # "none" THEN st
    ELSE BindPositional(w, PositionalStep(w, st), todo - 1)

\* the value the second loop cleans for the parameter kwarg
KeywordValue(st, kwarg) ==
    IF DictHas(st.kwargs, kwarg) THEN DictGet(st.kwargs, kwarg) ELSE PyNone

\* clean_and_validate_args, the body of the loop over range(i + 1, co_argcount)
KeywordStep(w, st, x, kwarg) ==
    IF DictHas(st.kwargs, kwarg) \/ Len(w.accepts) >= st.i + w.args_index
    THEN IF st.i >= Len(w.accepts) THEN [st EXCEPT !.exc = "IndexError"]
         ELSE AfterKeyword(st, kwarg,
                 CleanThenValidate(w.accepts[st.i + 1], KeywordValue(st, kwarg),
                                   st.verrors),
                 Append(st.binds, Binding(x, st.i, KeywordValue(st, kwarg))))
    ELSE [st EXCEPT !.i = st.i + 1]

\* clean_and_validate_args, the loop "for x in range(i + 1, co_argcount)"
RECURSIVE BindKeywords(_, _, _)
BindKeywords(w, st, x) ==
    IF x >= w.co_argcount \/ st.exc # "none" THEN st
    ELSE BindKeywords(w, KeywordStep(w, st, x, w.co_varnames[x + 1]), x + 1)

\* A variant of RaiseCollected that returns although violations were collected
RaiseCollected_Never(st) == st

\* clean_and_validate_args: "if verrors: raise verrors"
RaiseCollected(st) ==
    IF st.exc = "none" /\ Len(st.verrors) > 0
    THEN [st EXCEPT !.exc = "ValidationErrors"] ELSE st

\* the second loop starts at x = i + 1 with the i the first loop ended on
KeywordsAfter(w, st) == BindKeywords(w, st, st.i + 1)

\* clean_and_validate_args(args, kwargs)
clean_and_validate_args(w, args, kwargs) ==
    RaiseCollected(KeywordsAfter(w,
        BindPositional(w, [exc |-> "none", error |-> NoError, i |-> 0, args |-> args,
                           kwargs |-> kwargs, verrors |-> <<>>, binds |-> <<>>],
                       Len(args) - w.args_index)))

\* "return f(*args, **kwargs)" after the pass st: f is called with the cleaned
\* arguments unless the pass raised
CallHandler(st) ==
    [exc |-> st.exc, error |-> st.error, verrors |-> st.verrors,
     binds |-> st.binds, called |-> st.exc = "none",
     fargs |-> IF st.exc = "none" THEN st.args ELSE <<>>,
     fkwargs |-> IF st.exc = "none" THEN st.kwargs ELSE <<>>]

\* the wrapper nf, called with args and kwargs
nf_call(w, args, kwargs) == CallHandler(clean_and_validate_args(w, args, kwargs))

-----------------------------------------------------------------------------
(* Calls through a wrapper: SpecBind *)

MaxParams == 2      \* schema attributes (and parameters) of a handler

\* the injected arguments of the prefix
Obj(id) == [t |-> "object", id |-> id]

NotBad == [what |-> "not bad", msg |-> "Should be not bad", rejects |-> {PyStr("bad")}]

BindAttrs ==
    {Int("x", [required |-> TRUE]),
     Str("y", [default |-> PyStr("z")]),
     Str("s", [validators |-> <<NotBad>>])}

BindValues == {PyInt(5), PyStr("z"), PyStr("bad")}

ParamNames == <<"a1", "a2", "a3", "a4">>

\* the wrappers of handlers with 1..n schema parameters over attrs
WrappersOver(attrs, n, prefixes) ==
    {wrap(schema, Handler(pa, jb, SubSeq(ParamNames, 1, Len(schema)), as)) :
        schema \in SeqsUpTo(attrs, n) \ {<<>>},
        pa \in prefixes, jb \in prefixes, as \in BOOLEAN}

\* the keyword arguments naming the parameters T, in declaration order
KwargsOf(params, T, f) ==
    LET chosen == SelectSeq(params, LAMBDA p : p \in T)
    IN  [i \in 1..Len(chosen) |-> KV(chosen[i], f[chosen[i]])]

Range(seq) == {seq[i] : i \in 1..Len(seq)}

\* the calls of w that pass the prefix and the first k schema parameters
\* positionally and each later one by keyword or not at all; ValuesAt(attr) are
\* the values handed in for the parameter of attr
CallsOf(w, ValuesAt(_)) ==
    LET n == Len(w.accepts)
        prefix == [i \in 1..w.args_index |-> Obj(w.co_varnames[i])]
        all == UNION {ValuesAt(w.accepts[j]) : j \in 1..n}
        AttrOf(name) ==
            w.accepts[(CHOOSE x \in 1..w.co_argcount : w.co_varnames[x] = name)
                      - w.args_index]
    IN  UNION {
          UNION {
            {[op |-> "call", args |-> prefix \o pos,
              kwargs |-> KwargsOf(w.co_varnames, T, f), result |-> Pending] :
                f \in {g \in [T -> all] : \A name \in T : g[name] \in ValuesAt(AttrOf(name))}} :
            T \in SUBSET Range(SubSeq(w.co_varnames, w.args_index + Len(pos) + 1,
                                      w.co_argcount))} :
          pos \in {p \in SeqsUpTo(all, n) :
                      \A j \in 1..Len(p) : p[j] \in ValuesAt(w.accepts[j])}}

BindValuesAt(attr) == BindValues

InitBind ==
    /\ \E w \in WrappersOver(BindAttrs, MaxParams, BOOLEAN) :
          nf = w /\ last \in CallsOf(w, BindValuesAt)
    /\ NoResolution

\* the wrapper nf of a synchronous handler: "return f(...)"
InvokeSync ==
    /\ last.op = "call" /\ last.result = Pending /\ ~nf.is_async
    /\ last' = [last EXCEPT !.result = nf_call(nf, last.args, last.kwargs)]
    /\ UNCHANGED <<nf, heap, schemas, methods, pending, returned, failure>>

\* the wrapper nf of a coroutine handler: "return await f(...)"
InvokeAsync ==
    /\ last.op = "call" /\ last.result = Pending /\ nf.is_async
    /\ last' = [last EXCEPT !.result = nf_call(nf, last.args, last.kwargs)]
    /\ UNCHANGED <<nf, heap, schemas, methods, pending, returned, failure>>

NextBind == InvokeSync \/ InvokeAsync

SpecBind == InitBind /\ [][NextBind]_vars

-----------------------------------------------------------------------------
(* Properties of the wrapper *)

Invoked == last.op = "call" /\ last.result # Pending

\* a clean of the pass that produced a violation
ViolationAt(b) ==
    LET attr == nf.accepts[b.i + 1]
        c == clean(attr, b.value)
    IN  c.exc # "none" \/ validate(attr, c.value).exc # "none"

\* the schema-covered parameters (positions in co_varnames, from 0) the call passes
PassedParams ==
    {x \in nf.args_index..(nf.co_argcount - 1) :
        x < Len(last.args) \/ DictHas(last.kwargs, nf.co_varnames[x + 1])}

\* C1: in every call of a wrapper (sync or async), a violation produced by
\* cleaning or validating an argument keeps the handler from being called; the
\* handler is called only when every argument the call passes has been cleaned
\* and validated and no clean or validate of the call produced a violation.
C1_NoCallOnViolation ==
    Invoked =>
        LET r == last.result
            B == Range(r.binds)
        IN  /\ (\E b \in B : ViolationAt(b)) => (~r.called /\ r.exc # "none")
            /\ r.called =>
                  /\ \A b \in B : ~ViolationAt(b)
                  /\ Len(r.verrors) = 0
                  /\ \A x \in PassedParams : \E b \in B : b.x = x

C1_Witness ==
    /\ Invoked /\ nf.is_async
    /\ last.result.exc = "ValidationErrors" /\ ~last.result.called
    /\ Len(last.result.binds) = 2
    /\ ViolationAt(last.result.binds[1])

\* the value the call gives for the j-th schema parameter (None when omitted)
InputOf(j) ==
    LET pos == nf.args_index + j
        name == nf.co_varnames[pos]
    IN  IF pos <= Len(last.args) THEN last.args[pos]
        ELSE IF DictHas(last.kwargs, name) THEN DictGet(last.kwargs, name)
        ELSE PyNone

\* the value f receives for its j-th schema parameter
DeliveredTo(j) ==
    LET pos == nf.args_index + j
        name == nf.co_varnames[pos]
        r == last.result
    IN  IF pos <= Len(r.fargs) THEN r.fargs[pos]
        ELSE IF DictHas(r.fkwargs, name) THEN DictGet(r.fkwargs, name)
        ELSE [t |-> "missing"]

\* the cleans the claim describes: parameter j through attribute j, in order
ExpectedBinds ==
    [j \in 1..Len(nf.accepts) |-> Binding(nf.args_index + j - 1, j - 1, InputOf(j))]

IsPrefix(a, b) == Len(a) <= Len(b) /\ \A i \in 1..Len(a) : a[i] = b[i]

\* C2 as claimed: with a prefix of 1, 2 or 3 injected parameters, the j-th
\* schema parameter is cleaned and validated through the j-th attribute whether
\* passed positionally, by keyword or omitted (then cleaned as None), and no
\* prefix parameter is cleaned through or overwritten by an attribute; with
\* [Int x required, Str y default "z"] and positional (5,) the handler is
\* called with x = 5 and y = "z".
C2_BoundByPosition ==
    Invoked =>
        LET r == last.result
            n == Len(nf.accepts)
        IN  /\ r.exc # "IndexError"
            /\ IsPrefix(r.binds, ExpectedBinds)
            /\ r.exc \in {"none", "ValidationErrors"} => r.binds = ExpectedBinds
            /\ r.called =>
                  /\ \A j \in 1..n :
                        DeliveredTo(j) = clean(nf.accepts[j], InputOf(j)).value
                  /\ \A i \in 1..nf.args_index :
                        /\ r.fargs[i] = Obj(nf.co_varnames[i])
                        /\ ~DictHas(r.fkwargs, nf.co_varnames[i])
            /\ (/\ nf.accepts = <<Int("x", [required |-> TRUE]),
                                  Str("y", [default |-> PyStr("z")])>>
                /\ SubSeq(last.args, nf.args_index + 1, Len(last.args)) = <<PyInt(5)>>
                /\ last.kwargs = <<>>) =>
                  /\ r.called
                  /\ DeliveredTo(1) = PyInt(5)
                  /\ DeliveredTo(2) = PyStr("z")

-----------------------------------------------------------------------------
(* Calls with well-shaped arguments that break domain rules: SpecDomain *)

DomainAttrs ==
    {Str("s", [validators |-> <<NotBad>>]),
     Str("e", [enum |-> PyList(<<PyStr("a"), PyStr("b")>>)]),
     IPAddr("ip", NoKw),
     Dir("dir", [validators |-> <<NotBad>>]),
     File("file", NoKw),
     List("l", [items |-> <<Str("s", [validators |-> <<NotBad>>])>>]),
     Dict("d", <<Str("s", [validators |-> <<NotBad>>]), IPAddr("ip", NoKw)>>, NoKw)}

DomainValuesAt(attr) ==
    CASE attr.cls = "List" ->
            {PyList(<<PyStr("z")>>), PyList(<<PyStr("bad"), PyStr("bad")>>)}
      [] attr.cls = "Dict" ->
            {PyDict(<<KV("s", s), KV("ip", ip)>>) :
                s \in {PyStr("z"), PyStr("bad")}, ip \in {PyStr("10.0.0.1"), PyStr("bad")}}
      [] attr.cls = "IPAddr" -> {PyStr("10.0.0.1"), PyStr("bad")}
      [] attr.cls = "Dir" -> {PyStr("/mnt"), PyStr("/etc/hosts"), PyStr("bad")}
      [] attr.cls = "File" -> {PyStr("/etc/hosts"), PyStr("/mnt"), PyStr("bad")}
      [] attr.enum # PyNone -> {PyStr("a"), PyStr("bad")}
      [] OTHER -> {PyStr("z"), PyStr("bad")}

InitDomain ==
    /\ \E w \in WrappersOver(DomainAttrs, MaxParams, {FALSE}) :
          nf = w /\ last \in CallsOf(w, DomainValuesAt)
    /\ NoResolution

SpecDomain == InitDomain /\ [][NextBind]_vars

RECURSIVE RightShape(_, _)
\* value has the shape attr asks for: the right primitive or container type, no
\* unexpected field, no missing required field
RightShape(attr, value) ==
    CASE value = PyNone -> ~attr.required
      [] attr.cls \in StrClasses -> value.t = "str"
      [] attr.cls = "Int" -> value.t = "int"
      [] attr.cls = "Bool" -> value.t = "bool"
      [] attr.cls = "List" ->
            /\ value.t = "list"
            /\ \A i \in 1..Len(value.l) :
                  Len(attr.items) > 0 => \E j \in 1..Len(attr.items) :
                                            RightShape(attr.items[j], value.l[i])
      [] attr.cls = "Dict" ->
            /\ value.t = "dict"
            /\ \A i \in 1..Len(value.d) :
                  IF DictHas(attr.attrs, value.d[i].k)
                  THEN RightShape(DictGet(attr.attrs, value.d[i].k), value.d[i].v)
                  ELSE attr.additional_attrs
            /\ \A i \in 1..Len(attr.attrs) :
                  attr.attrs[i].v.required => DictHas(value.d, attr.attrs[i].k)
      [] OTHER -> TRUE

Violation(path, errmsg) == [attribute |-> path, errmsg |-> errmsg]

RECURSIVE DomainViolations(_, _, _)
\* the domain violations of a well-shaped value, each under its dotted path:
\* value outside the enum, path missing or of the wrong kind, unparsable IP
\* address, every validator that rejects; through Dict fields and List elements
DomainViolations(attr, value, prefix) ==
    LET path == prefix \o <<attr.name>>
    IN  IF value = PyNone THEN {}
        ELSE
          (IF attr.cls \in StrClasses /\ attr.enum # PyNone /\ ~InList(value, attr.enum)
           THEN {Violation(path, "Invalid choice")} ELSE {})
          \cup
          (IF attr.cls = "Dir" /\ value.s # "" /\ ~PathExists(value.s)
           THEN {Violation(path, "This path does not exist.")} ELSE {})
          \cup
          (IF attr.cls = "Dir" /\ PathExists(value.s) /\ ~PathIsDir(value.s)
           THEN {Violation(path, "This path is not a directory.")} ELSE {})
          \cup
          (IF attr.cls = "File" /\ value.s # "" /\ ~PathExists(value.s)
           THEN {Violation(path, "This path does not exist.")} ELSE {})
          \cup
          (IF attr.cls = "File" /\ PathExists(value.s) /\ ~PathIsFile(value.s)
           THEN {Violation(path, "This path is not a file.")} ELSE {})
          \cup
          (IF attr.cls = "IPAddr" /\ value.s # "" /\ ~IsIPAddress(value.s)
           THEN {Violation(path, "Not a valid IP Address")} ELSE {})
          \cup
          (IF attr.cls \notin {"List", "Dict"}
           THEN {Violation(path, ShouldBeMsg(attr.validators[k])) :
                    k \in {k \in 1..Len(attr.validators) :
                              ValidatorRaises(attr.validators[k], value)}}
           ELSE {})
          \cup
          (IF attr.cls = "List"
           THEN UNION {DomainViolations(attr.items[j], value.l[i], path \o <<IdxStr(i - 1)>>) :
                          i \in 1..Len(value.l), j \in 1..Len(attr.items)}
           ELSE {})
          \cup
          (IF attr.cls = "Dict"
           THEN UNION {DomainViolations(attr.attrs[j].v,
                                        DictGet(value.d, attr.attrs[j].k), path) :
                          j \in {j \in 1..Len(attr.attrs) :
                                    DictHas(value.d, attr.attrs[j].k)}}
           ELSE {})

CallViolations ==
    UNION {DomainViolations(nf.accepts[j], InputOf(j), <<>>) : j \in 1..Len(nf.accepts)}

\* C7 as claimed: when every argument of a call has the right shape, the
\* rejection is one ValidationErrors holding an entry for every domain
\* violation of the arguments (enum, path, IP address, validators), across all
\* parameters, Dict fields and List elements; no violation ends the pass early.
C7_AllDomainViolationsReported ==
    (Invoked /\ \A j \in 1..Len(nf.accepts) : RightShape(nf.accepts[j], InputOf(j))) =>
        /\ CallViolations = {} => last.result.called
        /\ CallViolations # {} =>
              /\ last.result.exc = "ValidationErrors"
              /\ \A e \in CallViolations :
                    \E i \in 1..Len(last.result.verrors) :
                        /\ last.result.verrors[i].attribute = e.attribute
                        /\ last.result.verrors[i].errmsg = e.errmsg

-----------------------------------------------------------------------------
(* Schema objects, the registry and resolve *)

\* Ref.__init__
Ref(name) == [cls |-> "Ref", name |-> name]

\* Patch.__init__
Patch(name, newname, patches, kw) ==
    [cls |-> "Patch", name |-> name, newname |-> newname, patches |-> patches,
     register |-> KwGet(kw, "register", FALSE)]

AttributeClasses == {"Any", "Str", "Dir", "File", "IPAddr", "Bool", "Int", "List", "Dict"}

\* Objects live in a heap, addressed 1..Len(heap): a Dict object holds the
\* addresses of its attrs, a List object those of its items.  mem is the heap
\* and the registry while an operation runs: exc is the exception it raised,
\* ret what it returned.
None == 0
Mem(h, s) == [heap |-> h, schemas |-> s, exc |-> "none", ret |-> None]

RaiseIn(mem, exc) == [mem EXCEPT !.exc = exc]
ReturnIn(mem, value) == IF mem.exc = "none" THEN [mem EXCEPT !.ret = value] ELSE mem

\* a new object
New(mem, obj) == [mem EXCEPT !.heap = Append(@, obj), !.ret = Len(mem.heap) + 1]
NewDict(mem, obj) == New(mem, [obj EXCEPT !.attrs = mem.ret])
NewList(mem, obj) == New(mem, [obj EXCEPT !.items = mem.ret])

\* the objects an attribute declaration builds, children before parents; the
\* declaration is given as the tree of constructor calls
RECURSIVE Alloc(_, _), AllocAttrs(_, _, _), AllocItems(_, _, _)
AllocNext(mem, key, rest, acc) == AllocAttrs(mem, rest, Append(acc, KV(key, mem.ret)))
AllocAttrs(mem, attrs, acc) ==
    IF attrs = <<>> THEN ReturnIn(mem, acc)
    ELSE AllocNext(Alloc(mem, Head(attrs).v), Head(attrs).k, Tail(attrs), acc)
AllocNextItem(mem, rest, acc) == AllocItems(mem, rest, Append(acc, mem.ret))
AllocItems(mem, items, acc) ==
    IF items = <<>> THEN ReturnIn(mem, acc)
    ELSE AllocNextItem(Alloc(mem, Head(items)), Tail(items), acc)
Alloc(mem, tree) ==
    CASE tree.cls = "Dict" -> NewDict(AllocAttrs(mem, tree.attrs, <<>>), tree)
      [] tree.cls = "List" -> NewList(AllocItems(mem, tree.items, <<>>), tree)
      [] OTHER -> New(mem, tree)

\* A variant of deepcopy that copies the object itself only: the copy holds the
\* same child objects
deepcopy_Shallow(mem, a) == New(mem, mem.heap[a])

\* A variant of deepcopy that hands back the object itself
deepcopy_Alias(mem, a) == ReturnIn(mem, a)

\* copy.deepcopy(schema): a copy of the object and of every object it reaches.
\* No object of the model is reachable twice from one schema, so the memo of
\* deepcopy never hits and is left out.
RECURSIVE deepcopy(_, _), CopyAttrs(_, _, _), CopyItems(_, _, _)
CopyNext(mem, key, rest, acc) == CopyAttrs(mem, rest, Append(acc, KV(key, mem.ret)))
CopyAttrs(mem, attrs, acc) ==
    IF attrs = <<>> THEN ReturnIn(mem, acc)
    ELSE CopyNext(deepcopy(mem, Head(attrs).v), Head(attrs).k, Tail(attrs), acc)
CopyNextItem(mem, rest, acc) == CopyItems(mem, rest, Append(acc, mem.ret))
CopyItems(mem, items, acc) ==
    IF items = <<>> THEN ReturnIn(mem, acc)
    ELSE CopyNextItem(deepcopy(mem, Head(items)), Tail(items), acc)
deepcopy(mem, a) ==
    CASE mem.heap[a].cls = "Dict" ->
            NewDict(CopyAttrs(mem, mem.heap[a].attrs, <<>>), mem.heap[a])
      [] mem.heap[a].cls = "List" ->
            NewList(CopyItems(mem, mem.heap[a].items, <<>>), mem.heap[a])
      [] OTHER -> New(mem, mem.heap[a])

\* middleware.get_schema(name): the registered object, or None
get_schema(registry, name) ==
    IF DictHas(registry, name) THEN DictGet(registry, name) ELSE None

\* middleware.add_schema(schema): entries are keyed by name and unique
add_schema(mem, a) ==
    IF DictHas(mem.schemas, mem.heap[a].name) THEN RaiseIn(mem, "ValueError")
    ELSE [mem EXCEPT !.schemas = DictSet(@, mem.heap[a].name, a)]

\* "if self.register: middleware.add_schema(self)" and "return self"
RegisterAndReturn(mem, a) ==
    IF mem.exc # "none" THEN mem
    ELSE ReturnIn(IF mem.heap[a].register THEN add_schema(mem, a) ELSE mem, a)

\* Attribute.resolve
Attribute_resolve(mem, a) == RegisterAndReturn(mem, a)

\* Ref.resolve: "schema.register = False" on the copy
Unregistered(mem) == [mem EXCEPT !.heap[mem.ret].register = FALSE]
Ref_resolve(mem, name) ==
    IF get_schema(mem.schemas, name) = None THEN RaiseIn(mem, "ResolverError")
    ELSE Unregistered(deepcopy(mem, get_schema(mem.schemas, name)))

\* Patch.convert: the attribute a spec of an 'add' patch describes
convert(spec) ==
    CASE spec.type \in {"int", "integer"} -> Int(spec.name, spec.kw)
      [] spec.type \in {"str", "string"} -> Str(spec.name, spec.kw)
      [] spec.type \in {"bool", "boolean"} -> Bool(spec.name, spec.kw)
      [] spec.type = "dict" -> Dict(spec.name, <<>>, spec.kw)

ConvertRaises(spec) ==
    spec.type \notin {"int", "integer", "str", "string", "bool", "boolean", "dict"}

\* 'add': "schema.attrs[new.name] = new", new being the object in mem.ret
AttrsSet(mem, s, key) == [mem EXCEPT !.heap[s].attrs = DictSet(@, key, mem.ret)]
PatchAdd(mem, s, patch) ==
    IF ConvertRaises(patch) THEN RaiseIn(mem, "KeyError")
    ELSE AttrsSet(Alloc(mem, convert(patch)), s, patch.name)

\* 'rm': "del schema.attrs[patch['name']]"
PatchRm(mem, s, patch) ==
    IF ~DictHas(mem.heap[s].attrs, patch.name) THEN RaiseIn(mem, "KeyError")
    ELSE [mem EXCEPT !.heap[s].attrs = DictDel(@, patch.name)]

\* the mutators handed to 'edit' patches, applied to the object at address a
require == "require"
ApplyMethod(mem, method, a) ==
    IF method = require THEN [mem EXCEPT !.heap[a].required = TRUE] ELSE mem

\* 'edit': "attr = schema.attrs[patch['name']]" and "patch['method'](attr)"
PatchEdit(mem, s, patch) ==
    IF ~DictHas(mem.heap[s].attrs, patch.name) THEN RaiseIn(mem, "KeyError")
    ELSE IF "method" \in DOMAIN patch
         THEN ApplyMethod(mem, patch.method, DictGet(mem.heap[s].attrs, patch.name))
         ELSE mem

\* 'attr': setattr(schema, key, val) for every item of the patch
PatchAttr(mem, s, patch) == [mem EXCEPT !.heap[s] = patch @@ @]

Operation(operation, patch) == [operation |-> operation, patch |-> patch]

\* Patch.resolve, the body of "for operation, patch in self.patches"
ApplyPatch(mem, s, p) ==
    CASE p.operation = "add" -> PatchAdd(mem, s, p.patch)
      [] p.operation = "rm" -> PatchRm(mem, s, p.patch)
      [] p.operation = "edit" -> PatchEdit(mem, s, p.patch)
      [] p.operation = "attr" -> PatchAttr(mem, s, p.patch)
      [] OTHER -> mem

RECURSIVE ApplyPatches(_, _, _, _)
ApplyPatches(mem, s, patches, j) ==
    IF mem.exc # "none" \/ j > Len(patches) THEN mem
    ELSE ApplyPatches(ApplyPatch(mem, s, patches[j]), s, patches, j + 1)

\* Patch.resolve after the copy (in mem.ret): "schema.name = self.newname", the
\* patches, then "if self.register: middleware.add_schema(schema)"
Renamed(mem, newname) == [mem EXCEPT !.heap[mem.ret].name = newname]
PatchRegister(mem, s, register) ==
    IF mem.exc # "none" THEN mem
    ELSE ReturnIn(IF register THEN add_schema(mem, s) ELSE mem, s)
PatchCopy(mem, p) ==
    PatchRegister(ApplyPatches(Renamed(mem, p.newname), mem.ret, p.patches, 1),
                  mem.ret, p.register)

\* Patch.resolve
Patch_resolve(mem, p) ==
    IF get_schema(mem.schemas, p.name) = None
       \/ mem.heap[get_schema(mem.schemas, p.name)].cls # "Dict"
    THEN RaiseIn(mem, "ValueError")
    ELSE PatchCopy(deepcopy(mem, get_schema(mem.schemas, p.name)), p)

RECURSIVE resolve(_, _), ResolveItems(_, _, _), ResolveAttrs(_, _, _)

\* List.resolve, the loop: "self.items[index] = i.resolve(middleware)"
StoreItem(mem, a, index) ==
    IF mem.exc # "none" THEN mem ELSE [mem EXCEPT !.heap[a].items[index] = mem.ret]
ResolveItems(mem, a, index) ==
    IF mem.exc # "none" \/ index > Len(mem.heap[a].items) THEN mem
    ELSE ResolveItems(StoreItem(resolve(mem, mem.heap[a].items[index]), a, index),
                      a, index + 1)

\* List.resolve
List_resolve(mem, a) == RegisterAndReturn(ResolveItems(mem, a, 1), a)

\* Dict.resolve, the loop: "self.attrs[name] = attr.resolve(middleware)"
StoreAttr(mem, a, j) ==
    IF mem.exc # "none" THEN mem ELSE [mem EXCEPT !.heap[a].attrs[j].v = mem.ret]
ResolveAttrs(mem, a, j) ==
    IF mem.exc # "none" \/ j > Len(mem.heap[a].attrs) THEN mem
    ELSE ResolveAttrs(StoreAttr(resolve(mem, mem.heap[a].attrs[j].v), a, j), a, j + 1)

\* Dict.resolve
Dict_resolve(mem, a) == RegisterAndReturn(ResolveAttrs(mem, a, 1), a)

\* p.resolve(middleware), by the class of the object at address a
resolve(mem, a) ==
    CASE mem.heap[a].cls = "Ref" -> Ref_resolve(mem, mem.heap[a].name)
      [] mem.heap[a].cls = "Patch" -> Patch_resolve(mem, mem.heap[a])
      [] mem.heap[a].cls = "List" -> List_resolve(mem, a)
      [] mem.heap[a].cls = "Dict" -> Dict_resolve(mem, a)
      [] OTHER -> Attribute_resolve(mem, a)

\* resolver, the loop "for p in f.accepts": new_params.append(p.resolve(...))
RECURSIVE ResolveParams(_, _, _, _)
AppendParam(mem, accepts, j, new_params) ==
    IF mem.exc # "none" THEN mem
    ELSE ResolveParams(mem, accepts, j + 1, Append(new_params, mem.ret))
ResolveParams(mem, accepts, j, new_params) ==
    IF j > Len(accepts) THEN ReturnIn(mem, new_params)
    ELSE IF mem.heap[accepts[j]].cls \notin AttributeClasses \cup {"Ref", "Patch"}
         THEN RaiseIn(mem, "ResolverError")
         ELSE AppendParam(resolve(mem, accepts[j]), accepts, j, new_params)

\* resolver(middleware, f) for a callable f with the list f.accepts: mem.ret is
\* the new content of f.accepts
resolver(mem, accepts) == ResolveParams(mem, accepts, 1, <<>>)

\* the schema an address stands for: the object with every attrs and items
\* address replaced by the schema behind it
RECURSIVE Tree(_, _)
Tree(h, a) ==
    CASE h[a].cls = "Dict" ->
            [h[a] EXCEPT !.attrs = [j \in 1..Len(h[a].attrs) |->
                                      KV(h[a].attrs[j].k, Tree(h, h[a].attrs[j].v))]]
      [] h[a].cls = "List" ->
            [h[a] EXCEPT !.items = [j \in 1..Len(h[a].items) |-> Tree(h, h[a].items[j])]]
      [] OTHER -> h[a]

-----------------------------------------------------------------------------
(* The resolution pass over the declared methods: SpecResolve *)

MaxMethods == 3     \* declared methods of a pass

DeclS ==
    Dict("S", <<Int("id", [required |-> TRUE]), Str("name", NoKw)>>, [register |-> TRUE])

RmName == Operation("rm", [name |-> "name"])

\* the accepts lists methods are declared with
DeclaredParams ==
    {<<DeclS>>,
     <<Ref("S")>>,
     <<Dict("w", <<Ref("S")>>, NoKw)>>,
     <<List("l", [items |-> <<Ref("S")>>])>>,
     <<Patch("S", "S2", <<RmName>>, [register |-> TRUE])>>,
     <<Int("n", [register |-> TRUE]), Ref("n")>>,
     <<Dict("v", <<Patch("S", "S2", <<RmName>>, NoKw)>>, NoKw)>>,
     <<Str("t", NoKw)>>}

\* a callable without an accepts list
NoAccepts == <<>>

Same(x) == x
DeclSeqs ==
    {d \in SeqsUpTo(DeclaredParams \cup {NoAccepts}, MaxMethods) :
        Len(d) > 0 /\ Distinct(d, Same)}

\* the objects of the declarations decls, method by method: mem.ret[m] is the
\* list f.accepts of method m
RECURSIVE Declare(_, _, _, _)
DeclareNext(mem, decls, m, acc) == Declare(mem, decls, m + 1, Append(acc, mem.ret))
Declare(mem, decls, m, acc) ==
    IF m > Len(decls) THEN ReturnIn(mem, acc)
    ELSE DeclareNext(AllocItems(mem, decls[m], <<>>), decls, m, acc)

Method(declared, accepts) ==
    [declared |-> declared, has_accepts |-> declared # NoAccepts, accepts |-> accepts]

Declared(decls, mem) ==
    /\ heap = mem.heap
    /\ schemas = mem.schemas
    /\ methods = [m \in 1..Len(decls) |-> Method(decls[m], mem.ret[m])]
    /\ pending = 1..Len(decls)
    /\ returned = <<>>
    /\ failure = "none"

InitResolve ==
    /\ \E decls \in DeclSeqs : Declared(decls, Declare(Mem(<<>>, <<>>), decls, 1, <<>>))
    /\ nf = NoWrapper
    /\ last = NoCall

\* the end of resolver(middleware, f) for method m: "f.accepts.clear()" and
\* "f.accepts.extend(new_params)" unless a resolve raised
Resolved(m, mem) ==
    /\ heap' = mem.heap
    /\ schemas' = mem.schemas
    /\ failure' = mem.exc
    /\ methods' = IF mem.exc = "none" THEN [methods EXCEPT ![m].accepts = mem.ret]
                  ELSE methods
    /\ pending' = pending \ {m}
    /\ last' = [op |-> "resolver", m |-> m, exc |-> mem.exc]
    /\ UNCHANGED <<nf, returned>>

\* resolver(middleware, f) on a method not visited yet; an exception ends the pass
Resolver ==
    \E m \in pending :
        /\ failure = "none"
        /\ methods[m].has_accepts
        /\ Resolved(m, resolver(Mem(heap, schemas), methods[m].accepts))

\* resolver(middleware, f): "if not hasattr(f, 'accepts'): return"
ResolverSkip ==
    \E m \in pending :
        /\ failure = "none"
        /\ ~methods[m].has_accepts
        /\ pending' = pending \ {m}
        /\ last' = [op |-> "resolver", m |-> m, exc |-> "none"]
        /\ UNCHANGED <<nf, heap, schemas, methods, returned, failure>>

NextResolve == Resolver \/ ResolverSkip

SpecResolve == InitResolve /\ [][NextResolve]_vars

-----------------------------------------------------------------------------
(* Properties of the resolution pass *)

\* the nodes of a declared tree
RECURSIVE Nodes(_)
Nodes(tree) ==
    {tree} \cup
    (CASE tree.cls = "Dict" -> UNION {Nodes(tree.attrs[j].v) : j \in 1..Len(tree.attrs)}
       [] tree.cls = "List" -> UNION {Nodes(tree.items[j]) : j \in 1..Len(tree.items)}
       [] OTHER -> {})

DeclaredNodes ==
    UNION {UNION {Nodes(methods[m].declared[j]) : j \in 1..Len(methods[m].declared)} :
              m \in 1..Len(methods)}

\* every Ref and Patch names a register-flagged attribute of some declaration
TargetsDeclared ==
    {n.name : n \in {x \in DeclaredNodes : x.cls \in {"Ref", "Patch"}}}
        \subseteq {n.name : n \in {x \in DeclaredNodes :
                                      x.cls \in AttributeClasses /\ x.register}}

PassOver == methods # <<>> /\ (pending = {} \/ failure # "none")

\* what a pass leaves: how it ended, the schemas of every accepts list and the
\* schemas in the registry
Outcome(h, registry, accepts, exc) ==
    [exc |-> exc,
     accepts |-> [m \in 1..Len(accepts) |->
                    [j \in 1..Len(accepts[m]) |-> Tree(h, accepts[m][j])]],
     registry |-> {<<registry[i].k, Tree(h, registry[i].v)>> : i \in 1..Len(registry)}]

\* the pass that visits the methods in the order of their declaration
RECURSIVE PassInOrder(_, _, _)
PassStep(mem, accepts, m) ==
    IF mem.exc # "none" THEN [mem EXCEPT !.ret = accepts]
    ELSE PassInOrder(mem, [accepts EXCEPT ![m] = mem.ret], m + 1)
PassInOrder(mem, accepts, m) ==
    IF m > Len(accepts) THEN [mem EXCEPT !.ret = accepts]
    ELSE PassStep(resolver(mem, accepts[m]), accepts, m)

OutcomeOf(mem) == Outcome(mem.heap, mem.schemas, mem.ret, mem.exc)
PassFrom(mem) == OutcomeOf(PassInOrder(mem, mem.ret, 1))
DeclaredOrderOutcome ==
    PassFrom(Declare(Mem(<<>>, <<>>), [m \in 1..Len(methods) |-> methods[m].declared],
                     1, <<>>))

\* C10 as claimed: when every Ref and Patch target is the name of a
\* register-flagged attribute declared in some tree, one resolution pass over
\* the trees (registry empty at the start, resolver applied once to each)
\* ends without a resolution error in whatever order the trees are visited,
\* and leaves the same resolved trees and the same registry as the pass in
\* declaration order.
C10_AnyOrderSameOutcome ==
    (PassOver /\ TargetsDeclared) =>
        /\ failure = "none"
        /\ Outcome(heap, schemas, [m \in 1..Len(methods) |-> methods[m].accepts], failure)
              = DeclaredOrderOutcome

\* the schemas the accepts lists hold
ResolvedTrees ==
    UNION {{Tree(heap, methods[m].accepts[j]) : j \in 1..Len(methods[m].accepts)} :
              m \in 1..Len(methods)}

\* every field of the Dict is a concrete attribute named as its key
KeysAreNames(dict) ==
    \A j \in 1..Len(dict.attrs) :
        /\ dict.attrs[j].v.cls \in AttributeClasses
        /\ dict.attrs[j].v.name = dict.attrs[j].k

\* C12 as claimed: after a resolution pass that ended without an error, every
\* Dict of every resolved tree, Dicts declared with Ref or Patch fields
\* included, maps each field key k to a concrete attribute whose name is k.
C12_FieldKeysAreNames ==
    (PassOver /\ failure = "none") =>
        \A t \in ResolvedTrees :
            \A n \in {x \in Nodes(t) : x.cls = "Dict"} : KeysAreNames(n)

-----------------------------------------------------------------------------
(* Consumers of a filled registry: SpecRefs and SpecPatch *)

MaxCopies == 2      \* schemas handed out by Ref.resolve
MaxHeap == 14       \* objects, for the Patch.resolve calls of SpecPatch

RegFields ==
    {Int("id", [required |-> TRUE]), Str("name", NoKw),
     Dict("opts", <<Int("level", NoKw)>>, NoKw)}

\* the Dicts registered under the name S
RegDicts ==
    {Dict("S", fields, [register |-> TRUE]) :
        fields \in {f \in SeqsUpTo(RegFields, MaxFields) : Len(f) > 0 /\ Distinct(f, NameOf)}}

\* the state a pass over decls leaves
PassDone(decls, mem) ==
    /\ heap = mem.heap
    /\ schemas = mem.schemas
    /\ methods = [m \in 1..Len(decls) |-> Method(decls[m], mem.ret[m])]
    /\ pending = {}
    /\ returned = <<>>
    /\ failure = mem.exc

Passed(decls, mem) == PassDone(decls, PassInOrder(mem, mem.ret, 1))

\* after the pass over a method that declares S and one that declares the Int n
InitRefs ==
    /\ \E S \in RegDicts :
          Passed(<<<<S>>, <<Int("n", [register |-> TRUE])>>>>,
                 Declare(Mem(<<>>, <<>>), <<<<S>>, <<Int("n", [register |-> TRUE])>>>>,
                         1, <<>>))
    /\ nf = NoWrapper
    /\ last = NoCall

RefNames == {"S", "n", "nope"}

RefResolved(name, mem) ==
    /\ heap' = mem.heap
    /\ schemas' = mem.schemas
    /\ returned' = IF mem.exc = "none" THEN Append(returned, mem.ret) ELSE returned
    /\ last' = [op |-> "Ref.resolve", name |-> name, exc |-> mem.exc, ret |-> mem.ret]
    /\ UNCHANGED <<nf, methods, pending, failure>>

\* Ref(name).resolve(middleware), made by a consumer
RefResolve ==
    \E name \in RefNames :
        /\ Len(returned) < MaxCopies
        /\ RefResolved(name, Ref_resolve(Mem(heap, schemas), name))

\* what a consumer does to a schema it was handed: set name or required, add,
\* remove or edit a field
Mutations ==
    {Operation("attr", [name |-> "q", required |-> TRUE]),
     Operation("add", [type |-> "str", name |-> "extra", kw |-> NoKw])}
    \cup {Operation("rm", [name |-> f]) : f \in {"id", "opts"}}
    \cup {Operation("edit", [name |-> f, method |-> require]) : f \in {"name", "opts"}}

Mutable(obj, mu) ==
    CASE mu.operation = "attr" -> TRUE
      [] mu.operation = "add" -> obj.cls = "Dict" /\ ~DictHas(obj.attrs, mu.patch.name)
      [] OTHER -> obj.cls = "Dict" /\ DictHas(obj.attrs, mu.patch.name)

Mutated(i, mu, mem) ==
    /\ heap' = mem.heap
    /\ last' = [op |-> "mutate", i |-> i, mu |-> mu]
    /\ UNCHANGED <<nf, schemas, methods, pending, returned, failure>>

\* a consumer mutates the i-th schema handed out
Mutate ==
    \E i \in 1..Len(returned), mu \in Mutations :
        /\ Mutable(heap[returned[i]], mu)
        /\ Mutated(i, mu, ApplyPatch(Mem(heap, schemas), returned[i], mu))

NextRefs == RefResolve \/ Mutate

SpecRefs == InitRefs /\ [][NextRefs]_vars

RmPatch(f) == <<Operation("rm", [name |-> f])>>

Patches ==
    {Patch("S", "S2", RmPatch(f), [register |-> r]) :
        f \in {"id", "name", "opts", "gone"}, r \in BOOLEAN}
    \cup {Patch("S", "S3", <<Operation("add", [type |-> "str", name |-> "extra", kw |-> NoKw]),
                             Operation("edit", [name |-> "extra", method |-> require]),
                             Operation("attr", [required |-> TRUE])>>, NoKw),
          Patch("S2", "S4", RmPatch("id"), NoKw),
          Patch("n", "n2", <<>>, NoKw),
          Patch("nope", "S5", <<>>, NoKw)}

PatchResolved(p, mem) ==
    /\ heap' = mem.heap
    /\ schemas' = mem.schemas
    /\ last' = [op |-> "Patch.resolve", patch |-> p, exc |-> mem.exc, ret |-> mem.ret]
    /\ UNCHANGED <<nf, methods, pending, returned, failure>>

\* Patch(...).resolve(middleware), made by a consumer
PatchResolve ==
    \E p \in Patches :
        /\ Len(heap) < MaxHeap
        /\ PatchResolved(p, Patch_resolve(Mem(heap, schemas), p))

NextPatch == PatchResolve

SpecPatch == InitRefs /\ [][NextPatch]_vars

-----------------------------------------------------------------------------
(* Properties of Ref.resolve and Patch.resolve *)

\* C5: whatever Ref.resolve calls and mutations of the schemas they returned
\* are made, no step changes a schema stored in the registry, a returned
\* schema changes only in the step that mutates that very schema, and every
\* returned schema has register = FALSE.
C5_CopiesIndependent ==
    [][/\ Len(schemas') >= Len(schemas)
       /\ \A i \in 1..Len(schemas) :
             /\ schemas'[i].k = schemas[i].k
             /\ Tree(heap', schemas'[i].v) = Tree(heap, schemas[i].v)
       /\ \A j \in 1..Len(returned) :
             Tree(heap', returned'[j]) # Tree(heap, returned[j])
                => last'.op = "mutate" /\ last'.i = j
       /\ \A j \in 1..Len(returned') : ~heap'[returned'[j]].register]_vars

\* C5 witness: two copies of the registered S are out and a field of one of
\* them has just been edited, so that the two differ
C5_Witness ==
    /\ Len(returned) = 2
    /\ last.op = "mutate" /\ last.mu.operation = "edit"
    /\ heap[returned[1]].name = "S" /\ heap[returned[2]].name = "S"
    /\ Tree(heap, returned[1]) # Tree(heap, returned[2])

\* the Patch.resolve step of a Patch whose only patch removes a field the
\* registered target Dict has
RmOfPresentField(p) ==
    /\ Len(p.patches) = 1 /\ p.patches[1].operation = "rm"
    /\ get_schema(schemas, p.name) # None
    /\ heap[get_schema(schemas, p.name)].cls = "Dict"
    /\ DictHas(heap[get_schema(schemas, p.name)].attrs, p.patches[1].patch.name)
    /\ p.register => ~DictHas(schemas, p.newname)

\* C6: resolving Patch(S, S2, ('rm', {'name': f})) for a registered Dict S that
\* has field f returns a Dict named S2 whose fields are those of S other than
\* f, and leaves the registry entry S as it was.
C6_RmYieldsTheOtherFields ==
    [][(last'.op = "Patch.resolve" /\ RmOfPresentField(last'.patch)) =>
          /\ last'.exc = "none"
          /\ heap'[last'.ret].cls = "Dict"
          /\ heap'[last'.ret].name = last'.patch.newname
          /\ Tree(heap', last'.ret).attrs =
                DictDel(Tree(heap, get_schema(schemas, last'.patch.name)).attrs,
                        last'.patch.patches[1].patch.name)
          /\ Tree(heap', get_schema(schemas', last'.patch.name)) =
                Tree(heap, get_schema(schemas, last'.patch.name))]_vars

\* C6 witness: a Patch removing "id" from S came back as S2 without "id" while
\* the registered S still has it
C6_Witness ==
    /\ last.op = "Patch.resolve" /\ last.exc = "none"
    /\ last.patch.name = "S" /\ last.patch.patches = RmPatch("id")
    /\ heap[last.ret].name = "S2" /\ ~DictHas(heap[last.ret].attrs, "id")
    /\ DictHas(heap[get_schema(schemas, "S")].attrs, "id")

-----------------------------------------------------------------------------
(* Defaults substituted for an absent List, invocation after invocation:
   SpecDefaults *)

MaxCalls == 3       \* invocations that are handed a list

\* the list object self.default of the List attribute
DefaultAddr == 1

DefaultLists ==
    {List("l", NoKw),
     List("l", [default |-> PyList(<<PyInt(1)>>)]),
     List("l", [required |-> TRUE])}

\* the parameter a handler is declared with: a List, or a Dict with a List field
DefaultDecls ==
    DefaultLists
    \cup {Dict("d", <<L>>, [update |-> u]) : L \in DefaultLists, u \in BOOLEAN}

\* the List attribute of a declaration
ListOf(decl) == IF decl.cls = "List" THEN decl ELSE DictGet(decl.attrs, "l")

\* the attribute as it is while the list object of its default holds content
HoldingDefault(attr, content) ==
    IF attr.cls = "List" THEN [attr EXCEPT !.default = PyListAt(DefaultAddr, content)]
    ELSE [attr EXCEPT !.attrs = DictSet(@, "l",
              [DictGet(attr.attrs, "l") EXCEPT !.default = PyListAt(DefaultAddr, content)])]

\* the wrapper of a handler (self, a1) over the attribute, its default being
\* the list object at DefaultAddr
WrapperHolding(decl, h, is_async) ==
    wrap(<<HoldingDefault(decl, h[DefaultAddr].l)>>,
         Handler(FALSE, FALSE, <<"a1">>, is_async))

InitDefaults ==
    /\ \E decl \in DefaultDecls, is_async \in BOOLEAN :
          /\ heap = <<PyList(ListOf(decl).default.l)>>
          /\ methods = <<Method(<<decl>>, <<>>)>>
          /\ nf = WrapperHolding(decl, heap, is_async)
    /\ schemas = <<>> /\ pending = {} /\ returned = <<>> /\ failure = "none"
    /\ last = NoCall

\* the inputs that leave the list out: nothing at all, and for a Dict also {}
MissingInputs(attr) ==
    IF attr.cls = "List" THEN {PyNone} ELSE {PyNone, PyDict(<<>>)}

\* the list the cleaned value of the parameter hands over, if it has one
HasList(attr, value) ==
    IF attr.cls = "List" THEN value.t = "list"
    ELSE value.t = "dict" /\ DictHas(value.d, "l")
ListIn(attr, value) == IF attr.cls = "List" THEN value ELSE DictGet(value.d, "l")

\* the address of a list value: its own, or that of a new object
AddressOf(h, v) == IF "id" \in DOMAIN v THEN v.id ELSE Len(h) + 1

\* the invocation op got the list v
Delivered(op, v) ==
    /\ heap' = IF "id" \in DOMAIN v THEN heap ELSE Append(heap, PyList(v.l))
    /\ returned' = Append(returned, AddressOf(heap, v))
    /\ last' = [op |-> op, exc |-> "none", delivered |-> TRUE, content |-> v.l]
    /\ UNCHANGED <<nf, schemas, methods, pending, failure>>

NothingDelivered(op, exc) ==
    /\ last' = [op |-> op, exc |-> exc, delivered |-> FALSE, content |-> <<>>]
    /\ UNCHANGED <<nf, heap, schemas, methods, pending, returned, failure>>

CleanedMissing(attr, r) ==
    IF r.exc = "none" /\ HasList(attr, r.value)
    THEN Delivered("clean", ListIn(attr, r.value))
    ELSE NothingDelivered("clean", r.exc)

\* attr.clean(value) on the attribute of the wrapper, the list being absent
CleanMissing ==
    \E value \in MissingInputs(nf.accepts[1]) :
        /\ Len(returned) < MaxCalls
        /\ CleanedMissing(nf.accepts[1], clean(nf.accepts[1], value))

\* what the handler got for a1: passed on positionally or by keyword
HandlerArg(r) == IF Len(r.fargs) > 1 THEN r.fargs[2] ELSE DictGet(r.fkwargs, "a1")

InvokedMissing(attr, r) ==
    IF r.called /\ HasList(attr, HandlerArg(r))
    THEN Delivered("call", ListIn(attr, HandlerArg(r)))
    ELSE NothingDelivered("call", r.exc)

\* the wrapper called without a1, or with a1 = {} for a Dict
InvokeMissing ==
    \E args \in {<<Obj("self")>>} \cup
                {<<Obj("self"), v>> : v \in MissingInputs(nf.accepts[1]) \ {PyNone}} :
        /\ Len(returned) < MaxCalls
        /\ InvokedMissing(nf.accepts[1], nf_call(nf, args, <<>>))

\* the holder of the i-th list handed over appends to it
MutateDelivered ==
    \E i \in 1..Len(returned) :
        /\ Len(heap[returned[i]].l) < MaxLen
        /\ heap' = [heap EXCEPT ![returned[i]].l = Append(@, PyInt(9))]
        /\ nf' = WrapperHolding(methods[1].declared[1], heap', nf.is_async)
        /\ last' = [op |-> "mutate", exc |-> "none", delivered |-> FALSE, content |-> <<>>]
        /\ UNCHANGED <<schemas, methods, pending, returned, failure>>

NextDefaults == CleanMissing \/ InvokeMissing \/ MutateDelivered

SpecDefaults == InitDefaults /\ [][NextDefaults]_vars

-----------------------------------------------------------------------------
(* Properties of substituted defaults *)

DeclaredDefault == ListOf(methods[1].declared[1]).default.l

\* C11 as claimed: the list substituted for an absent List attribute, by
\* List.clean, by Dict.clean or through the wrapper, is a new list: it is not
\* the list object of the attribute's default nor one handed to an earlier
\* invocation, so that whatever the holders append, the default keeps its
\* declared elements and every invocation is handed exactly those.
C11_FreshDefaultEachTime ==
    methods # <<>> =>
        /\ heap[DefaultAddr].l = DeclaredDefault
        /\ \A i \in 1..Len(returned) : returned[i] # DefaultAddr
        /\ \A i, j \in 1..Len(returned) : i # j => returned[i] # returned[j]
        /\ last.op \in {"clean", "call"} /\ last.delivered
              => last.content = DeclaredDefault

====
